---------------------------- MODULE Spec2Model ----------------------------
(***************************************************************************)
(* Model of the substring-search programs of src/src/main.rs (naive,       *)
(* Rabin-Karp, Boyer-Moore, Knuth-Morris-Pratt) and of the word indices of *)
(* src/src/index.rs and src/src/trie.rs.                                   *)
(*                                                                         *)
(* Characters are code points (`ch as u64`).  Cursors keep the source's    *)
(* 0-based values; At(s, k) reads the element the source writes s[k].      *)
(***************************************************************************)
EXTENDS Integers, Sequences, FiniteSets, TLC

VARIABLES
    overflow_checks,  \* build profile: TRUE = debug (arithmetic overflow panics)
    pattern, text,    \* the inputs of the four contains functions
    pc,               \* position of the running program
    i, j,             \* the cursors of the function that is running
    naive_result, rk_result, bm_result, kmp_result, \* {} until the call returned
    pattern_hash, text_hasher,                      \* rabin_karp locals
    bad_char_tbl, good_suffix_tbl,                  \* boyer_moore locals
    table, cnd,                                     \* knuth_morris_pratt locals
    corpus, inner, trie, word, index_found, trie_found  \* index.rs / trie.rs

vars == << overflow_checks, pattern, text, pc, i, j,
           naive_result, rk_result, bm_result, kmp_result,
           pattern_hash, text_hasher, bad_char_tbl, good_suffix_tbl,
           table, cnd, corpus, inner, trie, word, index_found, trie_found >>

matcherVars == << overflow_checks, pattern, text, i, j,
                  naive_result, rk_result, bm_result, kmp_result,
                  pattern_hash, text_hasher, bad_char_tbl, good_suffix_tbl,
                  table, cnd >>

indexVars == << corpus, inner, trie, word, index_found, trie_found >>

---------------------------------------------------------------------------
(* Bounds of the model *)

MaxPat == 3        \* longest pattern of the exhaustive inputs
MaxText == 4       \* longest text of the exhaustive inputs
LongMin == 18      \* shortest of the long patterns
MaxLong == 21      \* longest of the long patterns
MaxLines == 2      \* lines of a corpus
MaxLineLen == 3    \* characters of a corpus line
MaxWord == 2       \* characters of a query word

Chars == {97, 98}          \* 'a', 'b'
LongChars == {9, 18, 97}   \* '\t', U+0012, 'a'
Space == 32                \* ' ', ASCII whitespace

---------------------------------------------------------------------------
(* Sequences *)

At(s, k) == s[k + 1]

Max(a, b) == IF a >= b THEN a ELSE b

SeqsUpTo(S, n) == UNION {[1..k -> S] : k \in 0..n}

Rep(c, n) == [k \in 1..n |-> c]

\* s[from..to) of the source: the slice of the 0-based positions from..to-1
Slice(s, from, to) == SubSeq(s, from + 1, to)

\* p occurs as a contiguous run of t
Occurs(p, t) ==
    \E k \in 0..(Len(t) - Len(p)) : Slice(t, k, k + Len(p)) = p

---------------------------------------------------------------------------
(* u64 arithmetic.  A u64 is written as its eight bytes, least significant *)
(* first, followed by an overflow mark: 0, or 1 once an operation on the   *)
(* way to the value overflowed.  The eight bytes are the wrapped value     *)
(* (the value modulo 2^64), which is what a build without overflow checks  *)
(* computes; a build with overflow checks panics where the mark is set.    *)
(* The operations are functions, so that an operand is a value, evaluated  *)
(* once, wherever it is used.                                              *)

Byte == 2^8

\* n as u64, for 0 <= n < 2^31
ToU64(n) ==
    << n % Byte, (n \div Byte) % Byte, (n \div (Byte * Byte)) % Byte,
       n \div (Byte * Byte * Byte), 0, 0, 0, 0, 0 >>

Overflowed(x) == x[9] # 0

Mark(b) == IF b THEN 1 ELSE 0

\* x * s for a u64 x and a factor 0 <= s < 2^22; t1..t8 are the byte products
\* with the carry of the byte below
MulU64[x \in Seq(Nat), s \in Nat] ==
    LET t1 == x[1] * s
        t2 == x[2] * s + (t1 \div Byte)
        t3 == x[3] * s + (t2 \div Byte)
        t4 == x[4] * s + (t3 \div Byte)
        t5 == x[5] * s + (t4 \div Byte)
        t6 == x[6] * s + (t5 \div Byte)
        t7 == x[7] * s + (t6 \div Byte)
        t8 == x[8] * s + (t7 \div Byte)
    IN  << t1 % Byte, t2 % Byte, t3 % Byte, t4 % Byte,
           t5 % Byte, t6 % Byte, t7 % Byte, t8 % Byte,
           Mark(t8 \div Byte # 0 \/ Overflowed(x)) >>

\* x + y
AddU64[x \in Seq(Nat), y \in Seq(Nat)] ==
    LET t1 == x[1] + y[1]
        t2 == x[2] + y[2] + (t1 \div Byte)
        t3 == x[3] + y[3] + (t2 \div Byte)
        t4 == x[4] + y[4] + (t3 \div Byte)
        t5 == x[5] + y[5] + (t4 \div Byte)
        t6 == x[6] + y[6] + (t5 \div Byte)
        t7 == x[7] + y[7] + (t6 \div Byte)
        t8 == x[8] + y[8] + (t7 \div Byte)
    IN  << t1 % Byte, t2 % Byte, t3 % Byte, t4 % Byte,
           t5 % Byte, t6 % Byte, t7 % Byte, t8 % Byte,
           Mark(t8 \div Byte # 0 \/ Overflowed(x) \/ Overflowed(y)) >>

\* base.pow(power) for a base with base^6 < 2^22: the product of `power`
\* factors `base`, taken six at a time while six are left.  The products only
\* grow, so the mark is set exactly when base^power does not fit a u64.
PowU64[base \in Nat, power \in Nat] ==
    IF power = 0 THEN ToU64(1)
    ELSE IF power >= 6 THEN MulU64[PowU64[base, power - 6], base^6]
    ELSE MulU64[PowU64[base, power - 1], base]

\* x % m for a u64 x and a small modulus m
ModU64(x, m) ==
    LET r8 == x[8] % m
        r7 == (r8 * Byte + x[7]) % m
        r6 == (r7 * Byte + x[6]) % m
        r5 == (r6 * Byte + x[5]) % m
        r4 == (r5 * Byte + x[4]) % m
        r3 == (r4 * Byte + x[3]) % m
        r2 == (r3 * Byte + x[2]) % m
    IN  (r2 * Byte + x[1]) % m

---------------------------------------------------------------------------
(* rabin_karp::RollingHasher *)

MULTIPLIER == 10
MODULO == 256

\* RollingHasher::new, `next`: the term of the character at position k
NextTerm(init, k) ==
    MulU64[PowU64[MULTIPLIER, Len(init) - k - 1], At(init, k)]

\* RollingHasher::new, the loop: the sum of the terms of init[lo..hi), added
\* by halves.  The partial sums only grow, so the mark is set exactly when
\* `hash += next` overflows at some turn of the loop.
RECURSIVE NewSum(_, _, _)
NewSum(init, lo, hi) ==
    IF hi <= lo THEN ToU64(0)
    ELSE IF hi = lo + 1 THEN NextTerm(init, lo)
    ELSE AddU64[NewSum(init, lo, (lo + hi) \div 2),
                NewSum(init, (lo + hi) \div 2, hi)]

Hasher(sum, window) ==
    [hash |-> ModU64(sum, MODULO), window |-> window, ovf |-> Overflowed(sum)]

\* RollingHasher::new; ovf tells whether its arithmetic overflowed
RollingHasherNew(init) == Hasher(NewSum(init, 0, Len(init)), Len(init))

\* a roll that forgets to multiply the remaining hash by the multiplier
RolledNoMultiply(h, in_ch, prod) ==
    [hash |-> (((h.hash + MODULO - ModU64(prod, MODULO)) % MODULO) + in_ch)
              % MODULO,
     window |-> h.window,
     ovf |-> Overflowed(prod)]

\* RollingHasher::roll, given prod = out_ch * MULTIPLIER.pow(window - 1)
Rolled(h, in_ch, prod) ==
    [hash |-> (((h.hash + MODULO - ModU64(prod, MODULO)) % MODULO) * MULTIPLIER
               + in_ch) % MODULO,
     window |-> h.window,
     ovf |-> Overflowed(prod)]

\* RollingHasher::roll; ovf tells whether out_ch * MULTIPLIER.pow(power) overflowed
RollingHasherRoll(h, in_ch, out_ch) ==
    Rolled(h, in_ch, MulU64[PowU64[MULTIPLIER, h.window - 1], out_ch])

---------------------------------------------------------------------------
(* The inputs and the initial state of a run of main: the four contains    *)
(* functions are called in turn on one pattern and one text.               *)

SmallInputs ==
    {<< p, t >> : p \in SeqsUpTo(Chars, MaxPat), t \in SeqsUpTo(Chars, MaxText)}

LongTexts(c, n) ==
    {Rep(c, n), Rep(c, n) \o << c >>, << c, Space >> \o Rep(c, n)}

LongInputs ==
    UNION {{<< Rep(c, n), t >> : t \in LongTexts(c, n)} :
              c \in LongChars, n \in LongMin..MaxLong}

Inputs == SmallInputs \cup LongInputs

NoHasher == [hash |-> 0, window |-> 0, ovf |-> FALSE]

IndexIdle ==
    /\ corpus = << >>
    /\ inner = << >>
    /\ trie = << >>
    /\ word = << >>
    /\ index_found = {}
    /\ trie_found = {}

Init ==
    /\ overflow_checks \in BOOLEAN
    /\ \E in \in Inputs : pattern = in[1] /\ text = in[2]
    /\ pc = "naive"
    /\ i = 0
    /\ j = 0
    /\ naive_result = {}
    /\ rk_result = {}
    /\ bm_result = {}
    /\ kmp_result = {}
    /\ pattern_hash = 0
    /\ text_hasher = NoHasher
    /\ bad_char_tbl = << >>
    /\ good_suffix_tbl = << >>
    /\ table = << >>
    /\ cnd = 0
    /\ IndexIdle

\* a panic aborts the process: nothing runs after it
Panic ==
    /\ pc' = "panicked"
    /\ UNCHANGED << matcherVars, indexVars >>

\* the early returns shared by the four contains functions
EarlyTrue == pattern = << >>
EarlyFalse == text = << >> \/ Len(text) < Len(pattern)

---------------------------------------------------------------------------
(* naive *)

RECURSIVE ContainsInnerFrom(_, _, _)
ContainsInnerFrom(p, t, k) ==
    IF k = Len(p) THEN TRUE
    ELSE IF k = Len(t) THEN FALSE
    ELSE IF At(t, k) # At(p, k) THEN FALSE
    ELSE ContainsInnerFrom(p, t, k + 1)

ContainsInner(p, t) == ContainsInnerFrom(p, t, 0)

NaiveReturn(r) ==
    /\ naive_result' = {r}
    /\ pc' = "rk"
    /\ i' = 0
    /\ UNCHANGED << overflow_checks, pattern, text, j, rk_result, bm_result,
                    kmp_result, pattern_hash, text_hasher, bad_char_tbl,
                    good_suffix_tbl, table, cnd, indexVars >>

NaiveStart ==
    /\ pc = "naive"
    /\ IF EarlyTrue THEN NaiveReturn(TRUE)
       ELSE IF EarlyFalse THEN NaiveReturn(FALSE)
       ELSE /\ pc' = "naive_loop"
            /\ i' = 0
            /\ UNCHANGED << overflow_checks, pattern, text, j, naive_result,
                            rk_result, bm_result, kmp_result, pattern_hash,
                            text_hasher, bad_char_tbl, good_suffix_tbl, table,
                            cnd, indexVars >>

NaiveLoop ==
    /\ pc = "naive_loop"
    /\ IF i >= Len(text) THEN NaiveReturn(FALSE)
       ELSE IF ContainsInner(pattern, Slice(text, i, Len(text)))
            THEN NaiveReturn(TRUE)
       ELSE /\ i' = i + 1
            /\ UNCHANGED << overflow_checks, pattern, text, pc, j, naive_result,
                            rk_result, bm_result, kmp_result, pattern_hash,
                            text_hasher, bad_char_tbl, good_suffix_tbl, table,
                            cnd, indexVars >>

---------------------------------------------------------------------------
(* rabin_karp *)

RKReturn(r) ==
    /\ rk_result' = {r}
    /\ pc' = "bm"
    /\ i' = 0
    /\ UNCHANGED << overflow_checks, pattern, text, j, naive_result, bm_result,
                    kmp_result, pattern_hash, text_hasher, bad_char_tbl,
                    good_suffix_tbl, table, cnd, indexVars >>

\* after the early returns: the two hashers are built, or building one panics
RKEnter(ph, th) ==
    IF overflow_checks /\ (ph.ovf \/ th.ovf) THEN Panic
    ELSE /\ pattern_hash' = ph.hash
         /\ text_hasher' = th
         /\ i' = 0
         /\ pc' = "rk_loop"
         /\ UNCHANGED << overflow_checks, pattern, text, j, naive_result,
                         rk_result, bm_result, kmp_result, bad_char_tbl,
                         good_suffix_tbl, table, cnd, indexVars >>

RKStart ==
    /\ pc = "rk"
    /\ IF EarlyTrue THEN RKReturn(TRUE)
       ELSE IF EarlyFalse THEN RKReturn(FALSE)
       ELSE RKEnter(RollingHasherNew(pattern),
                    RollingHasherNew(Slice(text, 0, Len(pattern))))

\* the window at i is hashed, or the roll panics
RKRolled(rolled) ==
    IF overflow_checks /\ rolled.ovf THEN Panic
    ELSE /\ text_hasher' = rolled
         /\ pc' = "rk_check"
         /\ UNCHANGED << overflow_checks, pattern, text, i, j, naive_result,
                         rk_result, bm_result, kmp_result, pattern_hash,
                         bad_char_tbl, good_suffix_tbl, table, cnd, indexVars >>

\* the head of the for loop, the length test and the roll of the window
RKRoll ==
    /\ pc = "rk_loop"
    /\ IF i >= Len(text) THEN RKReturn(FALSE)
       ELSE IF Len(text) - i < Len(pattern)
            THEN /\ i' = i + 1
                 /\ UNCHANGED << overflow_checks, pattern, text, pc, j,
                                 naive_result, rk_result, bm_result, kmp_result,
                                 pattern_hash, text_hasher, bad_char_tbl,
                                 good_suffix_tbl, table, cnd, indexVars >>
       ELSE RKRolled(IF i > 0
                     THEN RollingHasherRoll(text_hasher,
                                            At(text, i + Len(pattern) - 1),
                                            At(text, i - 1))
                     ELSE text_hasher)

\* the hash pre-filter and the verification of the window at i
RKCheck ==
    /\ pc = "rk_check"
    /\ IF text_hasher.hash = pattern_hash
          /\ ContainsInner(pattern, Slice(text, i, Len(text)))
       THEN RKReturn(TRUE)
       ELSE /\ i' = i + 1
            /\ pc' = "rk_loop"
            /\ UNCHANGED << overflow_checks, pattern, text, j, naive_result,
                            rk_result, bm_result, kmp_result, pattern_hash,
                            text_hasher, bad_char_tbl, good_suffix_tbl, table,
                            cnd, indexVars >>

---------------------------------------------------------------------------
(* boyer_moore *)

InRange(s, k) == k >= 0 /\ k < Len(s)

\* HashMap::insert: a later insert of the same key overwrites the earlier one
Insert(tbl, key, v) == (key :> v) @@ tbl

\* bad_character_table: for i in 1..pattern.len()
RECURSIVE BadCharFrom(_, _, _)
BadCharFrom(p, k, tbl) ==
    IF k >= Len(p) THEN tbl
    ELSE BadCharFrom(p, k + 1, Insert(tbl, At(p, k), Len(p) - k - 1))

BadCharacterTable(p) == BadCharFrom(p, 1, << >>)

\* good_suffix_table, the first inner loop: every position of the remainder is
\* tried in ascending order and a later qualifying one overwrites an earlier.
RECURSIVE FullSuffixScan(_, _, _, _)
FullSuffixScan(p, suffix_len, pos, cur) ==
    LET m == Len(p)
        suffix == Slice(p, m - suffix_len, m)
        mismatch == At(p, m - suffix_len - 1)
        remainder == Slice(p, 0, m - 1)
    IN  IF pos >= Len(remainder) - Len(suffix) + 1 THEN cur
        ELSE IF /\ Slice(remainder, pos, pos + suffix_len) = suffix
                /\ (pos = 0 \/ At(remainder, pos - 1) # mismatch)
             THEN FullSuffixScan(p, suffix_len, pos + 1,
                                 [shift |-> m - pos, found |-> TRUE])
             ELSE FullSuffixScan(p, suffix_len, pos + 1, cur)

\* good_suffix_table, the second inner loop: par_suffix_len descends from
\* suffix_len - 1 to 1 and the first prefix that matches ends the loop.
RECURSIVE PartialSuffixScan(_, _, _)
PartialSuffixScan(p, suffix_len, par_suffix_len) ==
    LET m == Len(p)
    IN  IF par_suffix_len < 1 THEN m
        ELSE IF Slice(p, 0, par_suffix_len) = Slice(p, m - par_suffix_len, m)
             THEN m - par_suffix_len + suffix_len
             ELSE PartialSuffixScan(p, suffix_len, par_suffix_len - 1)

GoodSuffixEntry(p, suffix_len) ==
    LET full == FullSuffixScan(p, suffix_len, 0,
                               [shift |-> Len(p), found |-> FALSE])
    IN  IF full.found THEN full.shift
        ELSE PartialSuffixScan(p, suffix_len, suffix_len - 1)

\* table[0] = 1 and table[suffix_len] for suffix_len in 1..pattern.len()
GoodSuffixTable(p) ==
    [k \in 1..Len(p) |-> IF k = 1 THEN 1 ELSE GoodSuffixEntry(p, k - 1)]

\* bad_character_table.get(&ch).unwrap_or(&pattern.len())
BadCharShift(tbl, ch, p) == IF ch \in DOMAIN tbl THEN tbl[ch] ELSE Len(p)

\* a shift by the smaller of the two table entries
BMShiftAmountMin(bad, good, ch, jj, p) ==
    LET b == BadCharShift(bad, ch, p)
        g == At(good, Len(p) - jj - 1)
    IN  IF b <= g THEN b ELSE g

\* the advance of the text cursor after a mismatch at pattern position jj
BMShiftAmount(bad, good, ch, jj, p) ==
    Max(BadCharShift(bad, ch, p), At(good, Len(p) - jj - 1))

BMReturn(r) ==
    /\ bm_result' = {r}
    /\ pc' = "kmp"
    /\ i' = 0
    /\ j' = 0
    /\ UNCHANGED << overflow_checks, pattern, text, naive_result, rk_result,
                    kmp_result, pattern_hash, text_hasher, bad_char_tbl,
                    good_suffix_tbl, table, cnd, indexVars >>

BMStart ==
    /\ pc = "bm"
    /\ IF EarlyTrue THEN BMReturn(TRUE)
       ELSE IF EarlyFalse THEN BMReturn(FALSE)
       ELSE /\ bad_char_tbl' = BadCharacterTable(pattern)
            /\ good_suffix_tbl' = GoodSuffixTable(pattern)
            /\ i' = Len(pattern) - 1
            /\ pc' = "bm_outer"
            /\ UNCHANGED << overflow_checks, pattern, text, j, naive_result,
                            rk_result, bm_result, kmp_result, pattern_hash,
                            text_hasher, table, cnd, indexVars >>

\* while i < text.len() { let mut j = pattern.len() - 1; ...
BMOuter ==
    /\ pc = "bm_outer"
    /\ IF i < Len(text)
       THEN /\ j' = Len(pattern) - 1
            /\ pc' = "bm_inner"
            /\ UNCHANGED << overflow_checks, pattern, text, i, naive_result,
                            rk_result, bm_result, kmp_result, pattern_hash,
                            text_hasher, bad_char_tbl, good_suffix_tbl, table,
                            cnd, indexVars >>
       ELSE BMReturn(FALSE)

\* One test of `j != 0 && text[i] == pattern[j]` and what follows it: the loop
\* body, the return on j == 0, or the shift.  i -= 1 at i = 0 panics when
\* overflow is checked and wraps to usize::MAX otherwise; the wrapped cursor
\* is written -1: like usize::MAX it is an index of no slice.
BMInner ==
    /\ pc = "bm_inner"
    /\ IF j = 0 THEN BMReturn(TRUE)
       ELSE IF ~InRange(text, i) \/ ~InRange(pattern, j) THEN Panic
       ELSE IF At(text, i) = At(pattern, j)
            THEN IF i = 0 /\ overflow_checks THEN Panic
                 ELSE /\ i' = i - 1
                      /\ j' = j - 1
                      /\ UNCHANGED << overflow_checks, pattern, text, pc,
                                      naive_result, rk_result, bm_result,
                                      kmp_result, pattern_hash, text_hasher,
                                      bad_char_tbl, good_suffix_tbl, table,
                                      cnd, indexVars >>
       ELSE IF ~InRange(good_suffix_tbl, Len(pattern) - j - 1) THEN Panic
       ELSE /\ i' = i + BMShiftAmount(bad_char_tbl, good_suffix_tbl,
                                      At(text, i), j, pattern)
            /\ pc' = "bm_outer"
            /\ UNCHANGED << overflow_checks, pattern, text, j, naive_result,
                            rk_result, bm_result, kmp_result, pattern_hash,
                            text_hasher, bad_char_tbl, good_suffix_tbl, table,
                            cnd, indexVars >>

---------------------------------------------------------------------------
(* knuth_morris_pratt *)

KMPReturn(r) ==
    /\ kmp_result' = {r}
    /\ pc' = "done"
    /\ UNCHANGED << overflow_checks, pattern, text, i, j, naive_result,
                    rk_result, bm_result, pattern_hash, text_hasher,
                    bad_char_tbl, good_suffix_tbl, table, cnd, indexVars >>

\* the early returns, then partial_match_table's `vec![-1]` and `cnd = 0`
KMPStart ==
    /\ pc = "kmp"
    /\ IF EarlyTrue THEN KMPReturn(TRUE)
       ELSE IF EarlyFalse THEN KMPReturn(FALSE)
       ELSE /\ table' = << -1 >>
            /\ cnd' = 0
            /\ i' = 1
            /\ pc' = "kmp_table"
            /\ UNCHANGED << overflow_checks, pattern, text, j, naive_result,
                            rk_result, bm_result, kmp_result, pattern_hash,
                            text_hasher, bad_char_tbl, good_suffix_tbl,
                            indexVars >>

\* partial_match_table: one turn of `for i in 1..pattern.len()` up to the
\* fallback loop; after the last turn the scan starts with i = 0, j = 0
KMPTable ==
    /\ pc = "kmp_table"
    /\ IF i >= Len(pattern)
       THEN /\ i' = 0
            /\ j' = 0
            /\ pc' = "kmp_scan"
            /\ UNCHANGED << overflow_checks, pattern, text, naive_result,
                            rk_result, bm_result, kmp_result, pattern_hash,
                            text_hasher, bad_char_tbl, good_suffix_tbl, table,
                            cnd, indexVars >>
       ELSE IF ~InRange(pattern, cnd) \/ ~InRange(table, cnd) THEN Panic
       ELSE IF At(pattern, i) = At(pattern, cnd)
            THEN /\ table' = Append(table, At(table, cnd))
                 /\ cnd' = cnd + 1
                 /\ i' = i + 1
                 /\ UNCHANGED << overflow_checks, pattern, text, pc, j,
                                 naive_result, rk_result, bm_result,
                                 kmp_result, pattern_hash, text_hasher,
                                 bad_char_tbl, good_suffix_tbl, indexVars >>
       ELSE /\ table' = Append(table, cnd)
            /\ pc' = "kmp_fallback"
            /\ UNCHANGED << overflow_checks, pattern, text, i, j, naive_result,
                            rk_result, bm_result, kmp_result, pattern_hash,
                            text_hasher, bad_char_tbl, good_suffix_tbl, cnd,
                            indexVars >>

\* while cnd >= 0 && pattern[i] != pattern[cnd] { cnd = table[cnd] }; cnd += 1
KMPFallback ==
    /\ pc = "kmp_fallback"
    /\ IF cnd >= 0 /\ ~InRange(pattern, cnd) THEN Panic
       ELSE IF cnd >= 0 /\ At(pattern, i) # At(pattern, cnd)
            THEN IF ~InRange(table, cnd) THEN Panic
                 ELSE /\ cnd' = At(table, cnd)
                      /\ UNCHANGED << overflow_checks, pattern, text, pc, i, j,
                                      naive_result, rk_result, bm_result,
                                      kmp_result, pattern_hash, text_hasher,
                                      bad_char_tbl, good_suffix_tbl, table,
                                      indexVars >>
       ELSE /\ cnd' = cnd + 1
            /\ i' = i + 1
            /\ pc' = "kmp_table"
            /\ UNCHANGED << overflow_checks, pattern, text, j, naive_result,
                            rk_result, bm_result, kmp_result, pattern_hash,
                            text_hasher, bad_char_tbl, good_suffix_tbl, table,
                            indexVars >>

\* a scan that also advances the text cursor when it backtracks the pattern
KMPAdvanceSkip(tbl, ii, jj, matched) ==
    IF matched THEN << ii + 1, jj + 1 >>
    ELSE LET k == At(tbl, jj)
         IN  IF k < 0 THEN << ii + 1, k + 1 >> ELSE << ii + 1, k >>

\* the cursors after one turn of the scan loop that does not return
KMPAdvance(tbl, ii, jj, matched) ==
    IF matched THEN << ii + 1, jj + 1 >>
    ELSE LET k == At(tbl, jj)
         IN  IF k < 0 THEN << ii + 1, k + 1 >> ELSE << ii, k >>

\* one turn of `while i < text.len()`
KMPScan ==
    /\ pc = "kmp_scan"
    /\ IF i >= Len(text) THEN KMPReturn(FALSE)
       ELSE IF ~InRange(pattern, j) \/ ~InRange(table, j) THEN Panic
       ELSE LET matched == At(text, i) = At(pattern, j)
                next == KMPAdvance(table, i, j, matched)
            IN  IF matched /\ next[2] = Len(pattern) THEN KMPReturn(TRUE)
                ELSE /\ i' = next[1]
                     /\ j' = next[2]
                     /\ UNCHANGED << overflow_checks, pattern, text, pc,
                                     naive_result, rk_result, bm_result,
                                     kmp_result, pattern_hash, text_hasher,
                                     bad_char_tbl, good_suffix_tbl, table, cnd,
                                     indexVars >>

MatcherNext ==
    \/ NaiveStart
    \/ NaiveLoop
    \/ RKStart
    \/ RKRoll
    \/ RKCheck
    \/ BMStart
    \/ BMOuter
    \/ BMInner
    \/ KMPStart
    \/ KMPTable
    \/ KMPFallback
    \/ KMPScan

Next == MatcherNext

Spec == Init /\ [][Next]_vars

\* main runs to its end: every step that can be taken is taken
FairSpec == Spec /\ WF_vars(Next)

---------------------------------------------------------------------------
(* index.rs and trie.rs.  An Option is written as a sequence: None is the  *)
(* empty one and Some(v) holds v.  A Trie is written as the function from  *)
(* the path of each of its nodes (the characters from the root) to the     *)
(* node's occs; the root is the empty path.                                *)

None == << >>
Some(v) == << v >>

\* str::split_ascii_whitespace: the maximal runs of non-whitespace characters
RECURSIVE SplitFrom(_, _, _, _)
SplitFrom(line, k, cur, acc) ==
    IF k = Len(line) THEN (IF cur = << >> THEN acc ELSE Append(acc, cur))
    ELSE IF At(line, k) = Space
         THEN SplitFrom(line, k + 1, << >>,
                        IF cur = << >> THEN acc ELSE Append(acc, cur))
         ELSE SplitFrom(line, k + 1, Append(cur, At(line, k)), acc)

SplitAsciiWhitespace(line) == SplitFrom(line, 0, << >>, << >>)

\* Index::new, the closure: push i on the word's occurrences or insert vec![i]
IndexAdd(inr, w, idx) ==
    IF w \in DOMAIN inr THEN [inr EXCEPT ![w] = Append(@, idx)]
    ELSE Insert(inr, w, << idx >>)

RECURSIVE IndexAddWords(_, _, _, _)
IndexAddWords(inr, ws, k, idx) ==
    IF k = Len(ws) THEN inr
    ELSE IndexAddWords(IndexAdd(inr, At(ws, k), idx), ws, k + 1, idx)

RECURSIVE IndexNewFrom(_, _, _)
IndexNewFrom(lines, k, inr) ==
    IF k = Len(lines) THEN inr
    ELSE IndexNewFrom(lines, k + 1,
                      IndexAddWords(inr, SplitAsciiWhitespace(At(lines, k)),
                                    0, k))

\* Index::new
IndexNewOf(lines) == IndexNewFrom(lines, 0, << >>)

\* Index::find
IndexFindOf(inr, w) == IF w \in DOMAIN inr THEN Some(inr[w]) ELSE None

\* Trie::node at the root
TrieRoot == [path \in {<< >>} |-> << >>]

\* Trie::new, the closure: walk the word from the root, inserting the missing
\* nodes, and push i on the occs of the node the walk ends at
TrieAdd(tr, w, idx) ==
    LET paths == (DOMAIN tr) \cup {SubSeq(w, 1, n) : n \in 0..Len(w)}
        occs(path) == IF path \in DOMAIN tr THEN tr[path] ELSE << >>
    IN  [path \in paths |->
            IF path = w THEN Append(occs(path), idx) ELSE occs(path)]

RECURSIVE TrieAddWords(_, _, _, _)
TrieAddWords(tr, ws, k, idx) ==
    IF k = Len(ws) THEN tr
    ELSE TrieAddWords(TrieAdd(tr, At(ws, k), idx), ws, k + 1, idx)

RECURSIVE TrieNewFrom(_, _, _)
TrieNewFrom(lines, k, tr) ==
    IF k = Len(lines) THEN tr
    ELSE TrieNewFrom(lines, k + 1,
                     TrieAddWords(tr, SplitAsciiWhitespace(At(lines, k)), 0, k))

\* Trie::new
TrieNewOf(lines) == TrieNewFrom(lines, 0, TrieRoot)

\* Trie::find: follow the characters of the word; None at the first missing
\* child, Some(occs) of the node reached otherwise
RECURSIVE TrieFindFrom(_, _, _)
TrieFindFrom(tr, w, k) ==
    IF k = Len(w) THEN Some(tr[w])
    ELSE IF SubSeq(w, 1, k + 1) \in DOMAIN tr THEN TrieFindFrom(tr, w, k + 1)
    ELSE None

TrieFindOf(tr, w) == TrieFindFrom(tr, w, 0)

IndexChars == Chars \cup {Space}

Corpora == SeqsUpTo(SeqsUpTo(IndexChars, MaxLineLen), MaxLines)

MatcherIdle ==
    /\ overflow_checks = FALSE
    /\ pattern = << >>
    /\ text = << >>
    /\ i = 0
    /\ j = 0
    /\ naive_result = {}
    /\ rk_result = {}
    /\ bm_result = {}
    /\ kmp_result = {}
    /\ pattern_hash = 0
    /\ text_hasher = NoHasher
    /\ bad_char_tbl = << >>
    /\ good_suffix_tbl = << >>
    /\ table = << >>
    /\ cnd = 0

IndexInit ==
    /\ corpus \in Corpora
    /\ inner = << >>
    /\ trie = << >>
    /\ word = << >>
    /\ index_found = {}
    /\ trie_found = {}
    /\ pc = "index_new"
    /\ MatcherIdle

IndexNew ==
    /\ pc = "index_new"
    /\ inner' = IndexNewOf(corpus)
    /\ pc' = "trie_new"
    /\ UNCHANGED << matcherVars, corpus, trie, word, index_found, trie_found >>

TrieNew ==
    /\ pc = "trie_new"
    /\ trie' = TrieNewOf(corpus)
    /\ pc' = "index_find"
    /\ UNCHANGED << matcherVars, corpus, inner, word, index_found, trie_found >>

IndexFind ==
    /\ pc = "index_find"
    /\ \E w \in SeqsUpTo(Chars, MaxWord) :
          /\ word' = w
          /\ index_found' = {IndexFindOf(inner, w)}
    /\ pc' = "trie_find"
    /\ UNCHANGED << matcherVars, corpus, inner, trie, trie_found >>

TrieFind ==
    /\ pc = "trie_find"
    /\ trie_found' = {TrieFindOf(trie, word)}
    /\ pc' = "index_done"
    /\ UNCHANGED << matcherVars, corpus, inner, trie, word, index_found >>

IndexNext ==
    \/ IndexNew
    \/ TrieNew
    \/ IndexFind
    \/ TrieFind

IndexSpec == IndexInit /\ [][IndexNext]_vars

---------------------------------------------------------------------------
(* Properties *)

Maximum(S) == CHOOSE x \in S : \A y \in S : y <= x

\* C1: once main has called the four contains functions on a pattern and a
\* text, the four results are the same boolean.
OracleEquivalence ==
    pc = "done" =>
        /\ naive_result = rk_result
        /\ rk_result = bm_result
        /\ bm_result = kmp_result

\* C2: whenever knuth_morris_pratt::contains returns, with the table that
\* partial_match_table built, its result is true exactly when the pattern
\* occurs as a contiguous run of the text.
KMPCorrect ==
    kmp_result # {} => kmp_result = {Occurs(pattern, text)}

\* C2, its case: the scan returned true after at least one mismatch
KMPCorrectWitness ==
    /\ kmp_result = {TRUE}
    /\ Len(pattern) >= 2
    /\ ~ContainsInner(pattern, text)

RKOver == pc \notin {"naive", "naive_loop", "rk", "rk_loop", "rk_check"}

\* C3: for every pattern and text the call of rabin_karp::contains returns,
\* and returns true exactly when the pattern occurs as a contiguous run of
\* the text.
RKCorrect ==
    RKOver => rk_result = {Occurs(pattern, text)}

\* C4: at every turn of rabin_karp::contains whose window fits in the text,
\* the rolled hash equals the hash RollingHasher::new computes from scratch
\* over text[i..i+|pattern|], and the window length is unchanged.
RollingHashInvariant ==
    pc = "rk_check" =>
        LET direct == RollingHasherNew(Slice(text, i, i + Len(pattern)))
        IN  /\ text_hasher.hash = direct.hash
            /\ text_hasher.window = direct.window

\* C4, its case: the window was rolled at least twice
RollingHashWitness ==
    /\ pc = "rk_check"
    /\ i >= 2
    /\ Len(pattern) >= 2

\* C5: no call of the four contains functions aborts.
NoAbort == pc # "panicked"

\* C6, Boyer-Moore: the shift after a mismatch is larger than the number of
\* characters matched before it, so the cursor ends beyond the alignment end
\* the turn started from.
BMProgress ==
    [][(pc = "bm_inner" /\ pc' = "bm_outer")
          => i' > i + (Len(pattern) - 1 - j)]_vars

\* C6, the KMP scan: 2i - j grows at every turn, so no cursor pair repeats.
KMPProgress ==
    [][(pc = "kmp_scan" /\ pc' = "kmp_scan") => 2 * i' - j' > 2 * i - j]_vars

\* C6, the fallback loop of partial_match_table: cnd decreases at every turn.
FallbackProgress ==
    [][(pc = "kmp_fallback" /\ pc' = "kmp_fallback") => cnd' < cnd]_vars

\* C6: every run of the four contains functions ends (with the last result,
\* or aborted), and the loops make the progress stated above.
Termination ==
    /\ <>(pc \in {"done", "panicked"})
    /\ BMProgress
    /\ KMPProgress
    /\ FallbackProgress

\* C6, its case: a run in which Boyer-Moore and KMP both scanned a text
\* longer than the pattern to its end
TerminationWitness ==
    /\ pc = "done"
    /\ bm_result = {FALSE}
    /\ kmp_result = {FALSE}
    /\ Len(pattern) >= 2
    /\ Len(text) > Len(pattern)

\* C7: Trie::find and Index::find give the same result for every corpus and
\* every query word.
TrieIndexAgree ==
    pc = "index_done" => trie_found = index_found

\* C8: boyer_moore::contains returns true only when the pattern occurs in
\* the text.
BMTrueOnlyOnMatch ==
    (bm_result = {TRUE} /\ pattern # << >>) => Occurs(pattern, text)

\* C9: boyer_moore::contains never skips an occurrence: when the pattern
\* occurs in the text, the call returns true.
BMNeverSkips ==
    (bm_result # {} /\ Occurs(pattern, text)) => bm_result = {TRUE}

\* the table C10 describes: the characters at the positions 0..m-2, each with
\* m-1 minus its rightmost such position
ClaimedBadCharacterTable(p) ==
    [c \in {At(p, k) : k \in 0..(Len(p) - 2)} |->
        Len(p) - 1 - Maximum({k \in 0..(Len(p) - 2) : At(p, k) = c})]

\* C10: the table bad_character_table builds holds exactly the characters at
\* the positions 0..m-2 of the pattern, each with m-1 minus its rightmost
\* such position.
BadCharacterTableAsClaimed ==
    pc \in {"bm_outer", "bm_inner"} =>
        /\ DOMAIN bad_char_tbl = DOMAIN ClaimedBadCharacterTable(pattern)
        /\ \A c \in DOMAIN bad_char_tbl :
              bad_char_tbl[c] = ClaimedBadCharacterTable(pattern)[c]

===========================================================================
